---- MODULE Spec2Model ----
(***************************************************************************)
(* A model of cc-wf-studio's Claude Code CLI service                       *)
(* (src/src/extension/services/claude-code-service.ts): the registry of    *)
(* active processes, the two execution entry points, the two cancel entry  *)
(* points, the timers they schedule, and the result extractor              *)
(* parseClaudeCodeOutput.                                                  *)
(*                                                                         *)
(* The host is a single-threaded event loop: the body of an async function *)
(* runs without interruption up to its first await, a setTimeout callback  *)
(* runs as a later task, and the continuation of a caller that awaits a    *)
(* returned promise runs as a later job.                                   *)
(***************************************************************************)
EXTENDS Integers, Sequences, FiniteSets, TLC

(***************************************************************************)
(* Bounds of the model.                                                    *)
(***************************************************************************)
MaxOps == 3
MaxTicks == 2
TickMs == 250

(***************************************************************************)
(* Program constants.                                                      *)
(***************************************************************************)
FirstProgressDelayMs == 100
FinalProgressDelayMs == 500
ForceKillDelayMs == 500
CliTimeCapMs == 1000
StreamingTimeCapMs == 600

RequestIds == {"r1", "r2"}

\* timeoutMs arguments of the callers: a short one and the default.
Timeouts == {50, 60000}

\* What the installed CLI would do if it were run: an input of the
\* environment, like the prompt.
CliBehaviours == {"completes", "hangs"}

VARIABLES
    activeProcesses,  \* the Map requestId -> {subprocess, startTime}
    now,              \* Date.now(), in ms
    calls,            \* the execute* calls made so far, in call order
    cancels,          \* the cancel* calls made so far, in call order
    timers,           \* pending setTimeout callbacks
    signals,          \* kill() calls made on child processes
    cli,              \* what the installed CLI would do if it were run
    parseVal,         \* the JSON value an input was made from
    parseForm,        \* how the input was made from it
    parseIn,          \* parseClaudeCodeOutput: the input string
    parseOut,         \* parseClaudeCodeOutput: the returned value
    parsePc,          \* "ready" before the call, "done" after it
    isOffline,        \* offlineConfig.isOffline
    fs,               \* the two workflow directories and their files
    op,               \* the loadWorkflow / loadWorkflowList call in progress
    responses,        \* the messages posted to the webview, in order
    reads             \* the paths loadWorkflow handed to readFile, in order

orchVars == <<activeProcesses, now, calls, cancels, timers, signals, cli>>
parseVars == <<parseVal, parseForm, parseIn, parseOut, parsePc>>
storeVars == <<isOffline, fs, op, responses, reads>>
vars == <<activeProcesses, now, calls, cancels, timers, signals, cli,
          parseVal, parseForm, parseIn, parseOut, parsePc,
          isOffline, fs, op, responses, reads>>

Min(a, b) == IF a < b THEN a ELSE b

NoValue == [none |-> TRUE]

(***************************************************************************)
(* executeClaudeCodeCLI and executeClaudeCodeCLIStreaming.                 *)
(***************************************************************************)

\* The JSON text both entry points return as output (JSON.stringify of the
\* fixed offline object), kept as one opaque string.
mockOutput == "{status:success,values:{workflow:{name:offline-workflow}}}"

\* The arguments of the two onProgress calls, in program order.
StreamChunks ==
    << [chunk |-> "processing", displayText |-> "offline processing",
        explanatoryText |-> "offline processing", contentType |-> "text"],
       [chunk |-> "done", displayText |-> mockOutput,
        explanatoryText |-> mockOutput, contentType |-> "text"] >>

\* A plausible slip: the two delays exchanged.
ProgressDelay_Swapped(i) ==
    IF i = 1 THEN FinalProgressDelayMs ELSE FirstProgressDelayMs

\* The delay of the i-th setTimeout of executeClaudeCodeCLIStreaming.
ProgressDelay(i) ==
    IF i = 1 THEN FirstProgressDelayMs ELSE FinalProgressDelayMs

\* A plausible slip: the execution registers itself and never unregisters.
RegistryAfterExecute_Registers(reg, r, t) ==
    [x \in DOMAIN reg \cup {r} |->
        IF x = r THEN [subprocess |-> r, startTime |-> t] ELSE reg[x]]

\* The registry after the body of an execute* call: neither body touches
\* activeProcesses.
RegistryAfterExecute(reg, r, t) == reg

\* The value executeClaudeCodeCLI returns: the timeout, the request
\* identifier and the CLI are not consulted.
CliResult(startTime, endTime) ==
    [success |-> TRUE, output |-> mockOutput, error |-> "none",
     executionTimeMs |-> Min(endTime - startTime, CliTimeCapMs)]

\* The value executeClaudeCodeCLIStreaming returns.
StreamingResult(startTime, endTime) ==
    [success |-> TRUE, output |-> mockOutput, error |-> "none",
     executionTimeMs |-> Min(endTime - startTime, StreamingTimeCapMs)]

NewCall(kind, r, result) ==
    [kind |-> kind, requestId |-> r, result |-> result,
     delivered |-> FALSE,        \* the caller has received the result
     cancelRequested |-> FALSE,  \* a cancel for r was called before that
     progress |-> << >>]         \* the onProgress invocations, in order

\* executeClaudeCodeCLI(prompt, timeoutMs, requestId, ...): the body has no
\* await, so it runs to its return statement in one step; the returned
\* promise is then resolved.
executeClaudeCodeCLI(r, timeoutMs) ==
    /\ Len(calls) + Len(cancels) < MaxOps
    /\ calls' = Append(calls,
                  NewCall("cli", r, CliResult(now, now)))
    /\ activeProcesses' = RegistryAfterExecute(activeProcesses, r, now)
    /\ UNCHANGED <<now, cancels, timers, signals, cli, parseVars, storeVars>>

\* executeClaudeCodeCLIStreaming(prompt, onProgress, timeoutMs, requestId,
\* ...): schedules the two progress callbacks and returns.
executeClaudeCodeCLIStreaming(r, timeoutMs) ==
    /\ Len(calls) + Len(cancels) < MaxOps
    /\ calls' = Append(calls,
                  NewCall("streaming", r, StreamingResult(now, now)))
    /\ timers' = timers \cup
                 { [kind |-> "progress", call |-> Len(calls) + 1, idx |-> i,
                    due |-> now + ProgressDelay(i)] :
                   i \in 1..Len(StreamChunks) }
    /\ activeProcesses' = RegistryAfterExecute(activeProcesses, r, now)
    /\ UNCHANGED <<now, cancels, signals, cli, parseVars, storeVars>>

\* The caller's continuation after "await execute...(...)": it receives the
\* ExecutionResult the promise was resolved with.
DeliverResult(c) ==
    /\ c \in 1..Len(calls)
    /\ ~calls[c].delivered
    /\ calls' = [calls EXCEPT ![c].delivered = TRUE]
    /\ UNCHANGED <<activeProcesses, now, cancels, timers, signals, cli,
                   parseVars, storeVars>>

(***************************************************************************)
(* Timers and the clock.                                                   *)
(***************************************************************************)

\* The event loop runs expired timers in the order of their expiry times.
Runnable(t) ==
    /\ t \in timers
    /\ t.due <= now
    /\ \A u \in timers : u.due >= t.due

\* The callback of a progress timer: onProgress(chunk, displayText,
\* explanatoryText, 'text').  Each invocation is logged with what the
\* caller of the execution had seen by then.
ProgressTimerFires(t) ==
    /\ Runnable(t)
    /\ t.kind = "progress"
    /\ calls' = [calls EXCEPT
                    ![t.call].progress =
                        Append(@, [arg |-> StreamChunks[t.idx],
                                   resolved |->
                                       calls[t.call].result # NoValue,
                                   resultDelivered |-> calls[t.call].delivered,
                                   cancelRequested |->
                                       calls[t.call].cancelRequested])]
    /\ timers' = timers \ {t}
    /\ UNCHANGED <<activeProcesses, now, cancels, signals, cli, parseVars, storeVars>>

\* Time passes; a timer that is due runs before more time passes.
Tick ==
    /\ now + TickMs <= MaxTicks * TickMs
    /\ \A t \in timers : t.due > now
    /\ now' = now + TickMs
    /\ UNCHANGED <<activeProcesses, calls, cancels, timers, signals, cli,
                   parseVars, storeVars>>

(***************************************************************************)
(* cancelGeneration and cancelRefinement (the two bodies are the same but  *)
(* for their log texts).                                                   *)
(***************************************************************************)

\* A plausible slip: the not-found branch reports a cancellation.
CancelNotFoundResult_Cancelled == [cancelled |-> TRUE]

\* The value returned when activeProcesses has no entry for the identifier.
CancelNotFoundResult == [cancelled |-> FALSE]

\* A plausible slip: the lookup result is not tested, and the call goes on
\* to kill.
CancelNotFoundSignals_Kills(r) == {[requestId |-> r, signal |-> "kill"]}

\* The kill() calls of a cancel that found no entry: none.
CancelNotFoundSignals(r) == {}

\* The execute* calls with request identifier r made so far.
Started(r) == {c \in 1..Len(calls) : calls[c].requestId = r}

\* Those of them whose caller has not received the result yet.
InFlight(r) == {c \in Started(r) : ~calls[c].delivered}

\* cancelGeneration(r) / cancelRefinement(r), from the call to the return or
\* to the first await.  With no entry the body returns {cancelled: false};
\* with an entry it reads startTime and suspends at
\* "await subprocess.nodeChildProcess".
Cancel(fn, r) ==
    /\ Len(calls) + Len(cancels) < MaxOps
    /\ LET found == r \in DOMAIN activeProcesses
           rec(pc, result) ==
               [requestId |-> r, found |-> found, pc |-> pc,
                result |-> result,
                started |-> Started(r), inFlight |-> InFlight(r)] IN
       IF ~found
       THEN /\ cancels' = Append(cancels,
                            rec("returned", CancelNotFoundResult))
            /\ signals' = signals \cup CancelNotFoundSignals(r)
       ELSE /\ cancels' = Append(cancels, rec("awaitChild", NoValue))
            /\ signals' = signals
    /\ calls' = [c \in 1..Len(calls) |->
                    IF c \in InFlight(r)
                    THEN [calls[c] EXCEPT !.cancelRequested = TRUE]
                    ELSE calls[c]]
    /\ UNCHANGED <<activeProcesses, now, timers, cli, parseVars, storeVars>>

cancelGeneration(r) == Cancel("cancelGeneration", r)

cancelRefinement(r) == Cancel("cancelRefinement", r)

\* The rest of a cancel body that found an entry, after
\* "await subprocess.nodeChildProcess": childProcess.kill(), the forced kill
\* scheduled after ForceKillDelayMs, activeProcesses.delete(requestId) and
\* the return of {cancelled: true, executionTimeMs}.
CancelResumes(k) ==
    /\ k \in 1..Len(cancels)
    /\ cancels[k].pc = "awaitChild"
    /\ LET r == cancels[k].requestId IN
       /\ signals' = signals \cup
                     {[requestId |-> r, signal |-> "kill", cancel |-> k]}
       /\ timers' = timers \cup
                    {[kind |-> "forceKill", call |-> 0, idx |-> k,
                      due |-> now + ForceKillDelayMs]}
       /\ activeProcesses' =
              [x \in DOMAIN activeProcesses \ {r} |-> activeProcesses[x]]
       /\ cancels' = [cancels EXCEPT
                         ![k].pc = "returned",
                         ![k].result = [cancelled |-> TRUE]]
    /\ UNCHANGED <<now, calls, cli, parseVars, storeVars>>

\* The callback of the forced-kill timer: kill() again unless the first
\* kill() has set childProcess.killed.
ForceKillTimerFires(t) ==
    /\ Runnable(t)
    /\ t.kind = "forceKill"
    /\ LET r == cancels[t.idx].requestId
           killed == \E s \in signals : s.requestId = r IN
       signals' = IF killed THEN signals
                  ELSE signals \cup
                       {[requestId |-> r, signal |-> "kill",
                         cancel |-> t.idx, forced |-> TRUE]}
    /\ timers' = timers \ {t}
    /\ UNCHANGED <<activeProcesses, now, calls, cancels, cli, parseVars, storeVars>>

\* The steps that only a cancel that found an entry leads to.
CancelContinuation ==
    \/ \E k \in 1..Len(cancels) : CancelResumes(k)
    \/ \E t \in timers : ForceKillTimerFires(t)

(***************************************************************************)
(* The workflow store at rest (file-service.ts, offline.config.js).        *)
(***************************************************************************)

\* FileService.offlineWorkflowsDirectory and FileService.workflowsDirectory.
OfflineDir == "offlineWorkflowsDirectory"
WorkspaceDir == "workflowsDirectory"
Dirs == {OfflineDir, WorkspaceDir}

\* The workflow ids, in the order readDirectory lists their files.
NameOrder == <<"x", "y", "z">>
Names == {NameOrder[i] : i \in 1..Len(NameOrder)}

\* No file of that name in the directory.
NoFile == [kind |-> "none"]

NoCall == [fn |-> "none", pc |-> "idle"]

\* No call in progress, the shipped configuration, two empty directories.
StoreIdle ==
    /\ isOffline = TRUE
    /\ fs = [d \in Dirs |-> [exists |-> TRUE,
                             files |-> [n \in Names |-> NoFile]]]
    /\ op = NoCall
    /\ responses = << >>
    /\ reads = << >>

(***************************************************************************)
(* The specification of the orchestrator.                                  *)
(***************************************************************************)
OrchInit ==
    /\ activeProcesses = << >>
    /\ now = 0
    /\ calls = << >>
    /\ cancels = << >>
    /\ timers = {}
    /\ signals = {}
    /\ cli \in CliBehaviours

ParseIdle ==
    /\ parseVal = NoValue
    /\ parseForm = "none"
    /\ parseIn = << >>
    /\ parseOut = NoValue
    /\ parsePc = "idle"

Init == OrchInit /\ ParseIdle /\ StoreIdle

Next ==
    \/ \E r \in RequestIds, t \in Timeouts : executeClaudeCodeCLI(r, t)
    \/ \E r \in RequestIds, t \in Timeouts :
          executeClaudeCodeCLIStreaming(r, t)
    \/ \E c \in 1..Len(calls) : DeliverResult(c)
    \/ \E t \in timers : ProgressTimerFires(t)
    \/ \E r \in RequestIds : cancelGeneration(r)
    \/ \E r \in RequestIds : cancelRefinement(r)
    \/ Tick

\* No step of Next is left out of Spec by omitting CancelContinuation: no
\* reachable state enables it (RegistryAlwaysEmpty holds under SpecAll too).
Spec == Init /\ [][Next]_vars

SpecAll == Init /\ [][Next \/ CancelContinuation]_vars

(***************************************************************************)
(* Properties of the orchestrator.                                         *)
(***************************************************************************)
Calls == 1..Len(calls)
Cancels == 1..Len(cancels)

\* The cancel call k has returned {cancelled: true}.
CancelledTrue(k) ==
    /\ cancels[k].pc = "returned"
    /\ cancels[k].result.cancelled

\* The terminal events of execution c: what its result says, and Cancelled
\* when a cancel called for its identifier after its start returned
\* cancelled = true.
TerminalEvents(c) ==
    (IF calls[c].result = NoValue THEN {}
     ELSE IF calls[c].result.success THEN {"Completed"}
     ELSE IF calls[c].result.error = "TIMEOUT" THEN {"TimedOut"}
     ELSE {"Failed"})
    \cup
    (IF \E k \in Cancels : c \in cancels[k].started /\ CancelledTrue(k)
     THEN {"Cancelled"} ELSE {})

\* No execute*, cancel*, timer or continuation step ever leaves an entry in
\* activeProcesses: the Map has get and delete calls only.
RegistryAlwaysEmpty == DOMAIN activeProcesses = {}

\* C2: once a request has reached a terminal state, activeProcesses holds
\* no entry for its request identifier.
C2_NoRegistryEntryAfterTerminal ==
    \A c \in Calls :
        TerminalEvents(c) # {} =>
            calls[c].requestId \notin DOMAIN activeProcesses

\* An execution has completed and been delivered, a cancel for its
\* identifier has been called too, and the registry has no entry for it.
C2_Witness ==
    \E c \in Calls, k \in Cancels :
        /\ calls[c].delivered
        /\ "Completed" \in TerminalEvents(c)
        /\ c \in cancels[k].started
        /\ calls[c].requestId \notin DOMAIN activeProcesses

\* C3: cancelGeneration(r) and cancelRefinement(r) for an r that has no
\* registry entry return {cancelled: false} without raising, send no
\* signal, schedule no timer and leave the registry unchanged.
C3_CancelAbsentIsNoOp ==
    [][ (/\ Len(cancels') = Len(cancels) + 1
         /\ cancels'[Len(cancels')].requestId \notin DOMAIN activeProcesses)
        => (/\ cancels'[Len(cancels')].pc = "returned"
            /\ cancels'[Len(cancels')].result = [cancelled |-> FALSE]
            /\ signals' = signals
            /\ timers' = timers
            /\ activeProcesses' = activeProcesses) ]_vars

\* A cancel for an identifier with no entry has returned while a streaming
\* execution with that identifier still had its progress timers pending.
C3_Witness ==
    \E k \in Cancels, c \in Calls :
        /\ ~cancels[k].found
        /\ cancels[k].pc = "returned"
        /\ c \in cancels[k].inFlight
        /\ \E t \in timers : t.call = c

\* C5 (as claimed): an execution whose process produces no terminal output
\* within timeoutMs ends with success = false and error kind TIMEOUT, and
\* leaves no registry entry.  A CLI that hangs produces no output within
\* any timeoutMs.
C5_TimeoutIsReported ==
    \A c \in Calls :
        (cli = "hangs" /\ calls[c].result # NoValue) =>
            /\ ~calls[c].result.success
            /\ calls[c].result.error = "TIMEOUT"
            /\ calls[c].requestId \notin DOMAIN activeProcesses

\* C6: every request has exactly one terminal event; in particular never a
\* success result together with a cancel that returned cancelled = true.
C6_ExactlyOneTerminalEvent ==
    \A c \in Calls : Cardinality(TerminalEvents(c)) = 1

\* An execution was cancelled while its caller had not yet received its
\* result, and the result has been delivered since: it is Completed only.
C6_Witness ==
    \E c \in Calls, k \in Cancels :
        /\ c \in cancels[k].inFlight
        /\ calls[c].delivered
        /\ TerminalEvents(c) = {"Completed"}

\* C7 (as claimed): a cancel called for a started request before the
\* request has completed returns cancelled = true, and neither the result
\* nor a further progress chunk of that request is delivered after it.
C7_CancelBeforeCompletionTakesEffect ==
    /\ \A k \in Cancels : cancels[k].inFlight # {} => CancelledTrue(k)
    /\ \A c \in Calls :
          /\ ~(calls[c].cancelRequested /\ calls[c].delivered)
          /\ \A i \in 1..Len(calls[c].progress) :
                ~calls[c].progress[i].cancelRequested

\* C8 (as claimed): every onProgress invocation of a streaming execution
\* happens before the returned promise has resolved and before the final
\* result is delivered to the caller.
C8_ProgressBeforeResult ==
    \A c \in Calls :
        \A i \in 1..Len(calls[c].progress) :
            /\ ~calls[c].progress[i].resolved
            /\ ~calls[c].progress[i].resultDelivered

\* C9: within each streaming execution onProgress receives the chunks in
\* their order, one invocation per chunk, none reordered, merged or
\* skipped, also with several streaming executions in flight.
C9_ChunksInOrder ==
    \A c \in Calls :
        LET log == calls[c].progress
            pending == {t \in timers : t.call = c} IN
        /\ Len(log) <= Len(StreamChunks)
        /\ \A i \in 1..Len(log) : log[i].arg = StreamChunks[i]
        /\ calls[c].kind = "cli" => log = << >>
        /\ calls[c].kind = "streaming" =>
              Len(log) + Cardinality(pending) = Len(StreamChunks)

\* Two streaming executions are in flight together: each has delivered
\* its first chunk and still waits for its last.
C9_Witness ==
    \E c1, c2 \in Calls :
        /\ c1 # c2
        /\ \A c \in {c1, c2} :
              /\ calls[c].kind = "streaming"
              /\ Len(calls[c].progress) = 1
              /\ \E t \in timers : t.call = c

(***************************************************************************)
(* Strings.  A string is a sequence of characters, each a TLA+ string;     *)
(* positions in the operators below are JavaScript's, counted from 0.      *)
(***************************************************************************)
FenceTagLen == 7
FenceLen == 3

Max(a, b) == IF a > b THEN a ELSE b

\* The backtick character.
Backtick == "BACKTICK"

Fence == <<Backtick, Backtick, Backtick>>
FenceJson == <<Backtick, Backtick, Backtick, "j", "s", "o", "n">>

\* The characters String.prototype.trim removes, as far as inputs have them.
IsSpace(c) == c \in {" ", "\n", "\t", "\r"}

trim(s) ==
    LET keep == {i \in 1..Len(s) : ~IsSpace(s[i])} IN
    IF keep = {} THEN << >>
    ELSE SubSeq(s, CHOOSE i \in keep : \A j \in keep : i <= j,
                   CHOOSE i \in keep : \A j \in keep : i >= j)

\* s has p at position i.
MatchAt(s, p, i) ==
    /\ i >= 0
    /\ i + Len(p) <= Len(s)
    /\ SubSeq(s, i + 1, i + Len(p)) = p

startsWith(s, p) == MatchAt(s, p, 0)

endsWith(s, p) == MatchAt(s, p, Len(s) - Len(p))

indexOf(s, p) ==
    LET hits == {i \in 0..(Len(s) - Len(p)) : MatchAt(s, p, i)} IN
    IF hits = {} THEN -1 ELSE CHOOSE i \in hits : \A j \in hits : i <= j

lastIndexOf(s, p) ==
    LET hits == {i \in 0..(Len(s) - Len(p)) : MatchAt(s, p, i)} IN
    IF hits = {} THEN -1 ELSE CHOOSE i \in hits : \A j \in hits : i >= j

\* String.prototype.slice(start, end): a negative index counts from the end.
SliceIndex(s, i) == IF i < 0 THEN Max(Len(s) + i, 0) ELSE Min(i, Len(s))

slice(s, start, end) ==
    SubSeq(s, SliceIndex(s, start) + 1, SliceIndex(s, end))

sliceFrom(s, start) == SubSeq(s, SliceIndex(s, start) + 1, Len(s))

(***************************************************************************)
(* JSON values, JSON.stringify and JSON.parse.  Numbers are the naturals   *)
(* (no sign, fraction or exponent); the escapes are \" \\ \/ \n \t \r.     *)
(***************************************************************************)
JNull == [t |-> "null", v |-> << >>]
JBool(b) == [t |-> "bool", v |-> b]
JNum(n) == [t |-> "num", v |-> n]
JStr(s) == [t |-> "str", v |-> s]
JArr(elems) == [t |-> "arr", v |-> elems]
JObj(members) == [t |-> "obj", v |-> members]

\* Equality of two JSON values (JavaScript's deep equality).
JEq(a, b) == a.t = b.t /\ a.v = b.v

Digits == <<"0", "1", "2", "3", "4", "5", "6", "7", "8", "9">>

IsDigit(c) == \E d \in 1..Len(Digits) : Digits[d] = c

DigitValue(c) == (CHOOSE d \in 1..Len(Digits) : Digits[d] = c) - 1

RECURSIVE DigitsOf(_)
DigitsOf(n) ==
    IF n < Len(Digits) THEN <<Digits[n + 1]>>
    ELSE Append(DigitsOf(n \div Len(Digits)), Digits[(n % Len(Digits)) + 1])

RECURSIVE Escaped(_)
Escaped(s) ==
    IF s = << >> THEN << >>
    ELSE LET c == Head(s) IN
         (CASE c = "\"" -> <<"\\", "\"">>
            [] c = "\\" -> <<"\\", "\\">>
            [] c = "\n" -> <<"\\", "n">>
            [] c = "\t" -> <<"\\", "t">>
            [] c = "\r" -> <<"\\", "r">>
            [] OTHER -> <<c>>) \o Escaped(Tail(s))

RECURSIVE stringify(_), StringifyElements(_), StringifyMembers(_)
\* JSON.stringify(v), without indentation.
stringify(v) ==
    CASE v.t = "null" -> <<"n", "u", "l", "l">>
      [] v.t = "bool" -> IF v.v THEN <<"t", "r", "u", "e">>
                         ELSE <<"f", "a", "l", "s", "e">>
      [] v.t = "num" -> DigitsOf(v.v)
      [] v.t = "str" -> <<"\"">> \o Escaped(v.v) \o <<"\"">>
      [] v.t = "arr" -> <<"[">> \o StringifyElements(v.v) \o <<"]">>
      [] v.t = "obj" -> <<"{">> \o StringifyMembers(v.v) \o <<"}">>

StringifyElements(es) ==
    IF es = << >> THEN << >>
    ELSE stringify(Head(es)) \o
         (IF Len(es) = 1 THEN << >>
          ELSE <<",">> \o StringifyElements(Tail(es)))

StringifyMembers(ms) ==
    IF ms = << >> THEN << >>
    ELSE <<"\"">> \o Escaped(Head(ms)[1]) \o <<"\"", ":">> \o
         stringify(Head(ms)[2]) \o
         (IF Len(ms) = 1 THEN << >>
          ELSE <<",">> \o StringifyMembers(Tail(ms)))

IsJsonSpace(c) == c \in {" ", "\n", "\t", "\r"}

\* The first position (from 1) at or after i that holds no white space.
SkipSpace(s, i) ==
    LET rest == {j \in i..Len(s) : ~IsJsonSpace(s[j])} IN
    IF rest = {} THEN Max(i, Len(s) + 1)
    ELSE CHOOSE j \in rest : \A k \in rest : j <= k

ParseFail == [ok |-> FALSE, v |-> JNull, next |-> 0]

ParseOk(v, next) == [ok |-> TRUE, v |-> v, next |-> next]

Unescape(c) ==
    CASE c = "n" -> "\n"
      [] c = "t" -> "\t"
      [] c = "r" -> "\r"
      [] OTHER -> c

RECURSIVE ScanString(_, _, _)
\* The rest of a string literal whose opening quote has been read.
ScanString(s, j, acc) ==
    IF j > Len(s) THEN ParseFail
    ELSE IF s[j] = "\"" THEN ParseOk(JStr(acc), j + 1)
    ELSE IF s[j] = "\\"
         THEN IF j + 1 <= Len(s) /\ s[j + 1] \in {"\"", "\\", "/", "n", "t", "r"}
              THEN ScanString(s, j + 2, Append(acc, Unescape(s[j + 1])))
              ELSE ParseFail
    ELSE IF s[j] \in {"\n", "\t", "\r"} THEN ParseFail
    ELSE ScanString(s, j + 1, Append(acc, s[j]))

RECURSIVE ScanDigits(_, _, _)
ScanDigits(s, j, n) ==
    IF j <= Len(s) /\ IsDigit(s[j])
    THEN ScanDigits(s, j + 1, n * Len(Digits) + DigitValue(s[j]))
    ELSE ParseOk(JNum(n), j)

\* An object's members with key k set to v: a repeated key keeps its place
\* and takes the later value.
PutMember(ms, k, v) ==
    IF \E i \in 1..Len(ms) : ms[i][1] = k
    THEN [i \in 1..Len(ms) |-> IF ms[i][1] = k THEN <<k, v>> ELSE ms[i]]
    ELSE Append(ms, <<k, v>>)

RECURSIVE ParseValueAt(_, _), ParseElements(_, _, _), ParseMembers(_, _, _)
\* The JSON value that starts at position i (from 1) of s.
ParseValueAt(s, i) ==
    IF i > Len(s) THEN ParseFail
    ELSE CASE s[i] = "{" ->
                 LET j == SkipSpace(s, i + 1) IN
                 IF j <= Len(s) /\ s[j] = "}"
                 THEN ParseOk(JObj(<< >>), j + 1)
                 ELSE ParseMembers(s, j, << >>)
           [] s[i] = "[" ->
                 LET j == SkipSpace(s, i + 1) IN
                 IF j <= Len(s) /\ s[j] = "]"
                 THEN ParseOk(JArr(<< >>), j + 1)
                 ELSE ParseElements(s, j, << >>)
           [] s[i] = "\"" -> ScanString(s, i + 1, << >>)
           [] s[i] = "0" -> ParseOk(JNum(0), i + 1)
           [] IsDigit(s[i]) /\ s[i] # "0" -> ScanDigits(s, i, 0)
           [] MatchAt(s, <<"n", "u", "l", "l">>, i - 1) ->
                 ParseOk(JNull, i + 4)
           [] MatchAt(s, <<"t", "r", "u", "e">>, i - 1) ->
                 ParseOk(JBool(TRUE), i + 4)
           [] MatchAt(s, <<"f", "a", "l", "s", "e">>, i - 1) ->
                 ParseOk(JBool(FALSE), i + 5)
           [] OTHER -> ParseFail

\* The elements of an array from position i, which holds no white space.
ParseElements(s, i, acc) ==
    LET e == ParseValueAt(s, i) IN
    IF ~e.ok THEN ParseFail
    ELSE LET j == SkipSpace(s, e.next)
             acc2 == Append(acc, e.v) IN
         IF j > Len(s) THEN ParseFail
         ELSE IF s[j] = "]" THEN ParseOk(JArr(acc2), j + 1)
         ELSE IF s[j] = "," THEN ParseElements(s, SkipSpace(s, j + 1), acc2)
         ELSE ParseFail

\* The members of an object from position i, which holds no white space.
ParseMembers(s, i, acc) ==
    IF i > Len(s) \/ s[i] # "\"" THEN ParseFail
    ELSE LET k == ScanString(s, i + 1, << >>) IN
         IF ~k.ok THEN ParseFail
         ELSE LET c == SkipSpace(s, k.next) IN
              IF c > Len(s) \/ s[c] # ":" THEN ParseFail
              ELSE LET e == ParseValueAt(s, SkipSpace(s, c + 1)) IN
                   IF ~e.ok THEN ParseFail
                   ELSE LET j == SkipSpace(s, e.next)
                            acc2 == PutMember(acc, k.v.v, e.v) IN
                        IF j > Len(s) THEN ParseFail
                        ELSE IF s[j] = "}" THEN ParseOk(JObj(acc2), j + 1)
                        ELSE IF s[j] = ","
                             THEN ParseMembers(s, SkipSpace(s, j + 1), acc2)
                        ELSE ParseFail

\* JSON.parse(s): ok is FALSE where JSON.parse throws a SyntaxError.
JsonParse(s) ==
    LET r == ParseValueAt(s, SkipSpace(s, 1)) IN
    IF r.ok /\ SkipSpace(s, r.next) > Len(s) THEN r ELSE ParseFail

(***************************************************************************)
(* parseClaudeCodeOutput.                                                  *)
(***************************************************************************)

\* The strategy (1 to 4) whose branch the function takes for a trimmed
\* output.
Strategy(trimmed) ==
    IF startsWith(trimmed, FenceJson) /\ endsWith(trimmed, Fence) THEN 1
    ELSE IF startsWith(trimmed, <<"{">>) THEN 2
    ELSE LET jsonBlockStart == indexOf(trimmed, FenceJson)
             contentStart == jsonBlockStart + FenceTagLen
             jsonBlockEnd == lastIndexOf(trimmed, Fence) IN
         IF jsonBlockStart # -1 /\ jsonBlockEnd > contentStart THEN 3 ELSE 4

\* A plausible slip: the third branch ends the block at the first fence
\* after the json tag instead of the last fence of the text.
JsonContent_FirstInnerFence(trimmed) ==
    LET contentStart == indexOf(trimmed, FenceJson) + FenceTagLen
        closing == {i \in contentStart..Len(trimmed) :
                       MatchAt(trimmed, Fence, i)} IN
    CASE Strategy(trimmed) = 1 ->
            trim(slice(sliceFrom(trimmed, FenceTagLen), 0, 0 - FenceLen))
      [] Strategy(trimmed) = 3 ->
            trim(slice(trimmed, contentStart,
                       CHOOSE i \in closing : \A j \in closing : i <= j))
      [] OTHER -> trimmed

\* The text handed to JSON.parse in that branch.
JsonContent(trimmed) ==
    CASE Strategy(trimmed) = 1 ->
            trim(slice(sliceFrom(trimmed, FenceTagLen), 0, 0 - FenceLen))
      [] Strategy(trimmed) = 3 ->
            trim(slice(trimmed, indexOf(trimmed, FenceJson) + FenceTagLen,
                       lastIndexOf(trimmed, Fence)))
      [] OTHER -> trimmed

\* A plausible slip: when JSON.parse throws in the taken branch, the whole
\* trimmed output is tried next.
parseClaudeCodeOutput_TriesNext(output) ==
    LET r == JsonParse(JsonContent(trim(output)))
        whole == JsonParse(trim(output)) IN
    IF r.ok THEN r.v ELSE IF whole.ok THEN whole.v ELSE JNull

\* parseClaudeCodeOutput(output): the parsed value, or null when JSON.parse
\* throws.
parseClaudeCodeOutput(output) ==
    LET r == JsonParse(JsonContent(trim(output))) IN
    IF r.ok THEN r.v ELSE JNull

(***************************************************************************)
(* The specification of parseClaudeCodeOutput: one call on an input made   *)
(* from a JSON value.                                                      *)
(***************************************************************************)
MaxStrTokens == 3

\* What the strings of the JSON values are made of: the fence, the tagged
\* fence, a digit and a quote.
StrTokens == <<Fence, FenceJson, <<"1">>, <<"\"">>>>

RECURSIVE StringsOf(_)
\* The strings made of at most n tokens.
StringsOf(n) ==
    IF n = 0 THEN {<< >>}
    ELSE LET shorter == StringsOf(n - 1) IN
         shorter \cup {s \o StrTokens[i] : s \in shorter,
                                           i \in 1..Len(StrTokens)}

Key == <<"k">>

JsonValues ==
    LET strs == StringsOf(MaxStrTokens)
        short == StringsOf(1) IN
    {JNull, JBool(TRUE), JBool(FALSE), JNum(0), JNum(1), JNum(10),
     JArr(<< >>), JObj(<< >>)}
    \cup {JStr(s) : s \in strs}
    \cup {JArr(<<JStr(s)>>) : s \in strs}
    \cup {JArr(<<JStr(a), JStr(b)>>) : a \in short, b \in short}
    \cup {JObj(<< <<Key, JStr(s)>> >>) : s \in strs}
    \cup {JObj(<< <<Key, JArr(<<JStr(s), JNum(1)>>)>> >>) : s \in short}

Forms == {"fenced", "bare", "prose"}

\* The three inputs of the round trip: the json-fenced serialization, the
\* bare serialization, and prose followed by the json-fenced serialization.
MakeInput(form, v) ==
    LET text == stringify(v)
        fenced == FenceJson \o <<"\n">> \o text \o <<"\n">> \o Fence IN
    CASE form = "fenced" -> fenced
      [] form = "bare" -> text
      [] form = "prose" -> <<"p", "r", "o", "s", "e", "\n">> \o fenced

OrchIdle ==
    /\ activeProcesses = << >>
    /\ now = 0
    /\ calls = << >>
    /\ cancels = << >>
    /\ timers = {}
    /\ signals = {}
    /\ cli = "completes"

InitParse ==
    /\ OrchIdle
    /\ StoreIdle
    /\ \E v \in JsonValues, f \in Forms :
          /\ parseVal = v
          /\ parseForm = f
          /\ parseIn = MakeInput(f, v)
    /\ parseOut = NoValue
    /\ parsePc = "ready"

ParseCall ==
    /\ parsePc = "ready"
    /\ parseOut' = parseClaudeCodeOutput(parseIn)
    /\ parsePc' = "done"
    /\ UNCHANGED <<orchVars, storeVars, parseVal, parseForm, parseIn>>

NextParse == ParseCall

SpecParse == InitParse /\ [][NextParse]_vars

\* JSON.parse undoes JSON.stringify on every value of the model.
StringifyParseRoundTrip ==
    LET r == JsonParse(stringify(parseVal)) IN r.ok /\ JEq(r.v, parseVal)

\* C10 (as claimed): for any JSON value v, parseClaudeCodeOutput of the
\* json-fenced serialization of v, of the bare serialization of v, and of
\* prose followed by the json-fenced serialization of v each yield v.
C10_RoundTrip ==
    parsePc = "done" => JEq(parseOut, parseVal)

\* What holds of the round trip: it yields v from the two fenced inputs,
\* and from the bare serialization when v is an object.
RoundTripOfFencedInputsAndObjects ==
    (parsePc = "done" /\ (parseForm # "bare" \/ parseVal.t = "obj"))
        => JEq(parseOut, parseVal)

(***************************************************************************)
(* parseClaudeCodeOutput on inputs of any kind: serializations of JSON     *)
(* values and texts that no strategy can parse.                            *)
(***************************************************************************)

\* What the catch clause returns: JavaScript's null.
NoResult == JNull

\* JSON.parse throws on the text the taken branch hands to it.
ParseThrows(output) == ~JsonParse(JsonContent(trim(output))).ok

\* Texts that are not JSON: plain words, an unterminated json fence, a json
\* fence around words, an unterminated object, the empty string.
MalformedInputs ==
    { <<"n", "o", "t", " ", "j", "s", "o", "n", " ", "a", "t", " ", "a",
        "l", "l">>,
      FenceJson \o <<"\n", "{">>,
      FenceJson \o <<"\n", "n", "o", "\n">> \o Fence,
      <<"p", "r", "o", "s", "e", "\n">> \o FenceJson \o <<"\n", "{">>,
      <<"{", "\"", "k", "\"", ":">>,
      << >> }

InitExtract ==
    /\ OrchIdle
    /\ StoreIdle
    /\ \/ \E v \in JsonValues, f \in Forms :
             /\ parseVal = v
             /\ parseForm = f
             /\ parseIn = MakeInput(f, v)
       \/ \E s \in MalformedInputs :
             /\ parseVal = NoValue
             /\ parseForm = "malformed"
             /\ parseIn = s
    /\ parseOut = NoValue
    /\ parsePc = "ready"

SpecExtract == InitExtract /\ [][NextParse]_vars

\* The function returns a value on every input, and NoResult on every input
\* whose JSON.parse throws; none of the malformed texts parses.
ParseFailureYieldsNoResult ==
    /\ parsePc = "done" => parseOut # NoValue
    /\ (parsePc = "done" /\ ParseThrows(parseIn)) => parseOut = NoResult
    /\ parseForm = "malformed" => ParseThrows(parseIn)

\* C11 (as claimed): parseClaudeCodeOutput returns the "no result" value on
\* every input on which parsing fails, and that value differs from every
\* value it returns when parsing succeeds.
C11_NoResultIsDistinguishable ==
    parsePc = "done" => (ParseThrows(parseIn) <=> parseOut = NoResult)

(***************************************************************************)
(* The workflow store: FileService (file-service.ts), loadWorkflowList     *)
(* (load-workflow-list.ts) and loadWorkflow.                               *)
(***************************************************************************)

\* The stored updatedAt values are the dates 1..MaxStamp.
MaxStamp == 2

\* The value of a document's updatedAt member: a date string, a string that
\* is no date, or no member at all.
Stamp(t) == [k |-> "date", t |-> t]
BadStamp == [k |-> "invalid", t |-> 0]
NoStamp == [k |-> "absent", t |-> 0]
Stamps == {Stamp(t) : t \in 1..MaxStamp}

\* new Date().toISOString() while a listing runs: later than every stored
\* date.
Now == Stamp(MaxStamp + 1)

\* A file whose text JSON.parse rejects.
Corrupt == [kind |-> "corrupt"]

\* A workflow file stored in directory d.  Its description names d, so
\* that copies of one workflow in the two directories differ; name is ""
\* when the document has no name member.
Doc(d, name, updatedAt) ==
    [kind |-> "doc", name |-> name, description |-> d,
     updatedAt |-> updatedAt]

\* What a file of directory d can hold.
FilesOf(d) ==
    {NoFile, Corrupt, Doc(d, "", NoStamp)}
    \cup {Doc(d, "workflow", u) : u \in Stamps \cup {BadStamp}}

\* The ids of the documents an older version left in the workspace.
LegacyNames == {"y", "z"}

\* The directories a call can meet: each exists or not, and each of its
\* files is one of FilesOf.
Directories(d) ==
    { [exists |-> FALSE, files |-> [n \in Names |-> NoFile]] }
    \cup { [exists |-> TRUE, files |-> f] :
             f \in { g \in [Names -> FilesOf(d)] :
                       d = WorkspaceDir =>
                           \A n \in Names \ LegacyNames : g[n] = NoFile } }

\* A plausible slip: the mode is not consulted.
getCurrentStorageDirectory_IgnoresMode == WorkspaceDir

\* FileService.getCurrentStorageDirectory().
getCurrentStorageDirectory ==
    IF isOffline THEN OfflineDir ELSE WorkspaceDir

\* FileService.getWorkflowsDirectory().
getWorkflowsDirectory == getCurrentStorageDirectory

\* FileService.getOfflineWorkflowsDirectory().
getOfflineWorkflowsDirectory == OfflineDir

\* FileService.getWorkflowFilePath(workflowName): a path is a directory
\* and an id.
getWorkflowFilePath(workflowName) ==
    [dir |-> getCurrentStorageDirectory, id |-> workflowName]

\* FileService.getOfflineWorkflowFilePath(workflowName).
getOfflineWorkflowFilePath(workflowName) ==
    [dir |-> OfflineDir, id |-> workflowName]

\* The file at a path; NoFile in a directory that does not exist.
FileAt(filePath) ==
    IF fs[filePath.dir].exists THEN fs[filePath.dir].files[filePath.id]
    ELSE NoFile

\* FileService.fileExists(filePath): stat succeeds.
fileExists(filePath) == FileAt(filePath) # NoFile

\* The roots of the specification: the active root is the directory writes
\* target, the legacy root is the workspace directory.
ActiveRoot == IF isOffline THEN OfflineDir ELSE WorkspaceDir
LegacyRoot == WorkspaceDir

(***************************************************************************)
(* loadWorkflowList.                                                       *)
(***************************************************************************)

\* The directoryType arguments of the calls of loadWorkflowsFromDirectory,
\* in program order.
ScanOrder ==
    IF isOffline THEN <<"current", "offline", "workspace">>
    ELSE <<"current", "workspace">>

\* The switch of loadWorkflowsFromDirectory: the directory it enumerates.
directoryPath(directoryType) ==
    CASE directoryType = "current" -> getWorkflowsDirectory
      [] directoryType = "offline" -> getOfflineWorkflowsDirectory
      [] directoryType = "workspace" -> getWorkflowsDirectory

\* A plausible slip: the scan of the workspace reads its files from the
\* workspace directory, whatever the mode.
ScanFilePath_FromWorkspace(directoryType, workflowId) ==
    IF directoryType = "offline"
    THEN getOfflineWorkflowFilePath(workflowId)
    ELSE IF directoryType = "workspace"
    THEN [dir |-> WorkspaceDir, id |-> workflowId]
    ELSE getWorkflowFilePath(workflowId)

\* The path it reads the file of workflowId from.
ScanFilePath(directoryType, workflowId) ==
    IF directoryType = "offline"
    THEN getOfflineWorkflowFilePath(workflowId)
    ELSE getWorkflowFilePath(workflowId)

\* The element pushed for a parsed workflow file.
ListEntry(workflowId, workflow, directoryType) ==
    [id |-> workflowId,
     name |-> IF workflow.name = "" THEN workflowId ELSE workflow.name,
     description |-> workflow.description,
     updatedAt |-> IF workflow.updatedAt = NoStamp THEN Now
                   ELSE workflow.updatedAt,
     source |-> directoryType]

\* A plausible slip: the id of a pushed entry is not remembered.
MarkProcessed_Forgets(processedFiles, workflowId) == processedFiles

\* processedFiles.add(workflowId), after the entry was pushed.
MarkProcessed(processedFiles, workflowId) == processedFiles \cup {workflowId}

RECURSIVE ScanFiles(_, _, _, _)
\* The for loop of loadWorkflowsFromDirectory over the listed files from
\* the i-th on; acc holds workflows and processedFiles.
ScanFiles(dir, directoryType, i, acc) ==
    IF i > Len(NameOrder) THEN acc
    ELSE LET workflowId == NameOrder[i]
             listed == fs[dir].files[workflowId] # NoFile
             content == FileAt(ScanFilePath(directoryType, workflowId)) IN
         IF ~listed \/ workflowId \in acc.processedFiles
         THEN ScanFiles(dir, directoryType, i + 1, acc)
         ELSE IF content.kind # "doc"
         THEN ScanFiles(dir, directoryType, i + 1, acc)
         ELSE ScanFiles(dir, directoryType, i + 1,
                  [workflows |->
                       Append(acc.workflows,
                              ListEntry(workflowId, content, directoryType)),
                   processedFiles |->
                       MarkProcessed(acc.processedFiles, workflowId)])

\* A plausible slip: the failure of readDirectory is rethrown to the
\* caller's catch clause.
EnumerationFailure_Propagates == "propagated"

\* What loadWorkflowsFromDirectory does with a failure of readDirectory.
EnumerationFailure == "swallowed"

\* getTime() of the two dates and the comparator of the sort: dateB - dateA,
\* NaN (taken as 0 by the sort) when either string is no date.
CompareUpdatedAt(a, b) ==
    IF a.updatedAt.k = "date" /\ b.updatedAt.k = "date"
    THEN b.updatedAt.t - a.updatedAt.t
    ELSE 0

RECURSIVE BinaryPosition(_, _, _, _)
\* Where the sort inserts pivot into the sorted work[1..right-1], searching
\* from left (positions from 1).
BinaryPosition(work, pivot, left, right) ==
    IF left >= right THEN left
    ELSE LET mid == left + ((right - left) \div 2) IN
         IF CompareUpdatedAt(pivot, work[mid]) < 0
         THEN BinaryPosition(work, pivot, left, mid)
         ELSE BinaryPosition(work, pivot, mid + 1, right)

RECURSIVE SortWorkflows(_)
\* workflows.sort(comparator): the engine sorts a short array by binary
\* insertion, which is stable.
SortWorkflows(workflows) ==
    IF Len(workflows) <= 1 THEN workflows
    ELSE LET n == Len(workflows)
             work == SortWorkflows(SubSeq(workflows, 1, n - 1))
             pivot == workflows[n]
             at == BinaryPosition(work, pivot, 1, n) IN
         SubSeq(work, 1, at - 1) \o <<pivot>> \o SubSeq(work, at, n - 1)

\* workflows.map(({source, ...rest}) => rest).
WithoutSource(workflows) ==
    [i \in 1..Len(workflows) |->
        [id |-> workflows[i].id, name |-> workflows[i].name,
         description |-> workflows[i].description,
         updatedAt |-> workflows[i].updatedAt]]

\* The message of the catch clauses: the thrown error's text.
ErrorThrown(message) ==
    [type |-> "ERROR", code |-> "LOAD_FAILED", message |-> message,
     roots |-> {}]

WorkflowListLoaded(workflows) ==
    [type |-> "WORKFLOW_LIST_LOADED",
     workflows |-> WithoutSource(SortWorkflows(workflows))]

\* A call record: every call has all the locals of both functions.
NewOp(fn, pc, workflowId) ==
    [fn |-> fn, pc |-> pc, workflowId |-> workflowId,
     filePath |-> [dir |-> "", id |-> ""], foundIn |-> "",
     checked |-> << >>,          \* the paths given to fileExists so far
     removed |-> FALSE,          \* the found file was deleted before the read
     migrated |-> << >>,         \* the arguments migrateWorkflow was called with
     listed |-> << >>,           \* the list entry the id was taken from, if any
     workflows |-> << >>, processedFiles |-> {},
     scans |-> << >>]            \* the scans done: type, directory, threw

\* loadWorkflowList(fileService, webview, requestId), up to the first
\* await.
loadWorkflowList ==
    /\ op = NoCall
    /\ op' = NewOp("loadWorkflowList", "scan", "")
    /\ UNCHANGED <<isOffline, fs, responses, reads, orchVars, parseVars>>

\* One call of loadWorkflowsFromDirectory; readDirectory throws when the
\* directory does not exist, and may throw when it does.  After the last
\* one the list is sorted and posted.
loadWorkflowsFromDirectory ==
    /\ op.fn = "loadWorkflowList"
    /\ op.pc = "scan"
    /\ LET k == Len(op.scans) + 1
           directoryType == ScanOrder[k]
           dir == directoryPath(directoryType) IN
       \E threw \in {~fs[dir].exists, TRUE} :
          LET acc == IF threw
                     THEN [workflows |-> op.workflows,
                           processedFiles |-> op.processedFiles]
                     ELSE ScanFiles(dir, directoryType, 1,
                              [workflows |-> op.workflows,
                               processedFiles |-> op.processedFiles])
              scans == Append(op.scans, [directoryType |-> directoryType,
                                         dir |-> dir, threw |-> threw])
              rethrown == threw /\ EnumerationFailure = "propagated"
              last == k = Len(ScanOrder) IN
          /\ op' = [op EXCEPT
                       !.workflows = acc.workflows,
                       !.processedFiles = acc.processedFiles,
                       !.scans = scans,
                       !.pc = IF rethrown \/ last THEN "done" ELSE "scan"]
          /\ responses' =
                IF rethrown
                THEN Append(responses, ErrorThrown("readDirectory failed"))
                ELSE IF last
                THEN Append(responses, WorkflowListLoaded(acc.workflows))
                ELSE responses
          /\ reads' = reads
    /\ UNCHANGED <<isOffline, fs, orchVars, parseVars>>

(***************************************************************************)
(* loadWorkflow.                                                           *)
(***************************************************************************)

\* migrateWorkflow(parsedWorkflow): a total function that keeps what the
\* document says and brings it to the current schema.
migrateWorkflow(parsedWorkflow) ==
    [name |-> parsedWorkflow.name,
     description |-> parsedWorkflow.description,
     updatedAt |-> parsedWorkflow.updatedAt,
     schema |-> "current"]

LoadWorkflowMessage(workflow) ==
    [type |-> "LOAD_WORKFLOW", workflow |-> workflow]

\* The message posted when filePath is still empty after the checks.  Its
\* text names the workflow id and no directory: roots is the set of
\* directories the message names.
ErrorNotFound(workflowId) ==
    [type |-> "ERROR", code |-> "LOAD_FAILED",
     message |-> "not found in any storage location", roots |-> {}]

\* A plausible slip: the return after the not-found message is missing, and
\* readFile('') then throws into the catch clause.
NotFoundResponses_FallsThrough(workflowId) ==
    <<ErrorNotFound(workflowId), ErrorThrown("readFile failed")>>

\* The messages posted by the not-found branch.
NotFoundResponses(workflowId) ==
    <<ErrorNotFound(workflowId)>>

\* loadWorkflow(fileService, webview, workflowId, requestId), up to the
\* first await.
loadWorkflow(workflowId) ==
    /\ op = NoCall
    /\ op' = NewOp("loadWorkflow", "checkCurrent", workflowId)
    /\ UNCHANGED <<isOffline, fs, responses, reads, orchVars, parseVars>>

\* The call goes on with the result of a fileExists(path) that is the last
\* check of its branch: to the read when the file exists, to the not-found
\* message when it does not.
AfterLastCheck(path, foundIn) ==
    IF fileExists(path)
    THEN /\ op' = [op EXCEPT !.checked = Append(@, path),
                             !.filePath = path,
                             !.foundIn = foundIn,
                             !.pc = "read"]
         /\ responses' = responses
    ELSE /\ op' = [op EXCEPT !.checked = Append(@, path), !.pc = "done"]
         /\ responses' = responses \o NotFoundResponses(op.workflowId)

\* Step 1: fileExists(currentFilePath) resolves.
fileExistsCurrent ==
    /\ op.fn = "loadWorkflow"
    /\ op.pc = "checkCurrent"
    /\ LET currentFilePath == getWorkflowFilePath(op.workflowId) IN
       IF fileExists(currentFilePath)
       THEN op' = [op EXCEPT !.checked = Append(@, currentFilePath),
                             !.filePath = currentFilePath,
                             !.foundIn = "current",
                             !.pc = "read"]
       ELSE op' = [op EXCEPT !.checked = Append(@, currentFilePath),
                             !.pc = IF isOffline THEN "checkOffline"
                                    ELSE "checkWorkspace"]
    /\ UNCHANGED <<isOffline, fs, responses, reads, orchVars, parseVars>>

\* Step 2, taken in offline mode only: fileExists(offlineFilePath) resolves.
fileExistsOffline ==
    /\ op.fn = "loadWorkflow"
    /\ op.pc = "checkOffline"
    /\ AfterLastCheck(getOfflineWorkflowFilePath(op.workflowId), "offline")
    /\ UNCHANGED <<isOffline, fs, reads, orchVars, parseVars>>

\* Step 3, taken in online mode only: fileExists(workspaceFilePath)
\* resolves.
fileExistsWorkspace ==
    /\ op.fn = "loadWorkflow"
    /\ op.pc = "checkWorkspace"
    /\ AfterLastCheck(getWorkflowFilePath(op.workflowId), "workspace")
    /\ UNCHANGED <<isOffline, fs, reads, orchVars, parseVars>>

\* A plausible slip: migrateWorkflow is called on whatever readFile and
\* JSON.parse left, inside the catch clause too.
HookCalls_OnEveryRead(content) == <<content>>

\* The calls of migrateWorkflow after readFile(filePath) settled with
\* content: line 73 is reached only when readFile and JSON.parse returned.
HookCalls(content) ==
    IF content.kind = "doc" THEN <<content>> ELSE << >>

\* readFile(filePath) settles; JSON.parse, migrateWorkflow and the success
\* message follow, or the catch clause and its error message.
readWorkflowFile ==
    /\ op.fn = "loadWorkflow"
    /\ op.pc = "read"
    /\ LET content == FileAt(op.filePath) IN
       responses' =
           Append(responses,
                  CASE content.kind = "none" -> ErrorThrown("readFile failed")
                    [] content.kind = "corrupt" ->
                           ErrorThrown("JSON.parse failed")
                    [] content.kind = "doc" ->
                           LoadWorkflowMessage(migrateWorkflow(content)))
    /\ reads' = Append(reads, op.filePath)
    /\ op' = [op EXCEPT !.pc = "done",
                        !.migrated = @ \o HookCalls(FileAt(op.filePath))]
    /\ UNCHANGED <<isOffline, fs, orchVars, parseVars>>

\* Another program deletes the file that was found, before it is read.
FileDisappears ==
    /\ op.fn = "loadWorkflow"
    /\ op.pc = "read"
    /\ ~op.removed
    /\ fs' = [fs EXCEPT ![op.filePath.dir].files[op.filePath.id] = NoFile]
    /\ op' = [op EXCEPT !.removed = TRUE]
    /\ UNCHANGED <<isOffline, responses, reads, orchVars, parseVars>>

(***************************************************************************)
(* The specification of the workflow store: one call of loadWorkflowList   *)
(* or loadWorkflow on any file system, in either mode.                     *)
(***************************************************************************)
InitStore ==
    /\ OrchIdle
    /\ ParseIdle
    /\ isOffline \in BOOLEAN
    /\ \E offline \in Directories(OfflineDir),
          workspace \in Directories(WorkspaceDir) :
          fs = [d \in Dirs |-> IF d = OfflineDir THEN offline ELSE workspace]
    /\ op = NoCall
    /\ responses = << >>
    /\ reads = << >>

NextStore ==
    \/ loadWorkflowList
    \/ loadWorkflowsFromDirectory
    \/ \E workflowId \in Names : loadWorkflow(workflowId)
    \/ fileExistsCurrent
    \/ fileExistsOffline
    \/ fileExistsWorkspace
    \/ readWorkflowFile
    \/ FileDisappears

SpecStore == InitStore /\ [][NextStore]_vars

(***************************************************************************)
(* Properties of the workflow store.                                       *)
(***************************************************************************)

\* The call of fn has returned.
Done(fn) == op.fn = fn /\ op.pc = "done"

\* The last message posted.
Response == responses[Len(responses)]

\* The ids of the workflow documents stored in directory d.
DocIds(d) ==
    {n \in Names : fs[d].exists /\ fs[d].files[n].kind = "doc"}

\* The ids and the entries of the list that was sent.
ListedIds == {Response.workflows[i].id : i \in 1..Len(Response.workflows)}
ListedEntry(n) ==
    Response.workflows[CHOOSE i \in 1..Len(Response.workflows) :
                           Response.workflows[i].id = n]

\* The scans whose readDirectory threw, and those whose did not.
ScansThatThrew == {i \in 1..Len(op.scans) : op.scans[i].threw}
ScansThatRead == {i \in 1..Len(op.scans) : ~op.scans[i].threw}

\* Every scan of a listing enumerates the directory writes go to, whatever
\* its directoryType: the list holds the documents of that one directory.
ListingReadsOnlyTheCurrentDirectory ==
    Done("loadWorkflowList") =>
        /\ \A i \in 1..Len(op.scans) :
              op.scans[i].dir = getCurrentStorageDirectory
        /\ ListedIds = IF ScansThatRead = {} THEN {}
                       ELSE DocIds(getCurrentStorageDirectory)

\* C12 (as claimed): the listing merges the documents of the active root
\* and of the legacy workspace root: it holds exactly the documents of the
\* two, and a document of the active root is listed with the metadata of
\* the active root's copy; in offline and in online mode.
C12_ListingMergesRoots ==
    (Done("loadWorkflowList") /\ ScansThatThrew = {}) =>
        /\ ListedIds = DocIds(ActiveRoot) \cup DocIds(LegacyRoot)
        /\ \A n \in ListedIds \cap DocIds(ActiveRoot) :
              ListedEntry(n).description = ActiveRoot

\* The place of the entry with id n in the order the files were scanned.
ScanPlace(n) ==
    CHOOSE i \in 1..Len(op.workflows) : op.workflows[i].id = n

\* When every listed updatedAt is a date, the list is sorted by date,
\* newest first, and entries of equal dates keep their scan order.
SortedWhenAllDatesParse ==
    (Done("loadWorkflowList")
        /\ \A i \in 1..Len(Response.workflows) :
              Response.workflows[i].updatedAt.k = "date") =>
        \A i, j \in 1..Len(Response.workflows) :
            i < j =>
                LET a == Response.workflows[i]
                    b == Response.workflows[j] IN
                /\ a.updatedAt.t >= b.updatedAt.t
                /\ a.updatedAt.t = b.updatedAt.t =>
                       ScanPlace(a.id) < ScanPlace(b.id)

\* C13 (as claimed): in the list sent, of any two entries the one with the
\* later timestamp comes first, and entries with equal timestamps keep the
\* order in which they were scanned.
C13_NewestFirstAndStable ==
    Done("loadWorkflowList") =>
        \A i, j \in 1..Len(Response.workflows) :
            LET a == Response.workflows[i]
                b == Response.workflows[j] IN
            (i < j /\ a.updatedAt.k = "date" /\ b.updatedAt.k = "date") =>
                /\ a.updatedAt.t >= b.updatedAt.t
                /\ a.updatedAt.t = b.updatedAt.t =>
                       ScanPlace(a.id) < ScanPlace(b.id)

ActivePath(workflowId) == [dir |-> ActiveRoot, id |-> workflowId]
LegacyPath(workflowId) == [dir |-> LegacyRoot, id |-> workflowId]

\* C15: when the active root and the legacy workspace root both hold a
\* document named w, loadWorkflow(w) posts the content of the active
\* root's copy; in offline and in online mode.
C15_ActiveCopyWins ==
    (Done("loadWorkflow")
        /\ FileAt(ActivePath(op.workflowId)).kind = "doc"
        /\ FileAt(LegacyPath(op.workflowId)).kind = "doc") =>
        /\ Len(responses) = 1
        /\ Response = LoadWorkflowMessage(
               migrateWorkflow(FileAt(ActivePath(op.workflowId))))

\* In offline mode a workflow stored in both directories has been loaded,
\* and the message holds the copy of the offline directory.
C15_Witness ==
    /\ Done("loadWorkflow")
    /\ isOffline
    /\ FileAt(ActivePath(op.workflowId)).kind = "doc"
    /\ FileAt(LegacyPath(op.workflowId)).kind = "doc"
    /\ Response.type = "LOAD_WORKFLOW"
    /\ Response.workflow.description = OfflineDir

\* C16 (as claimed): a document that only the legacy workspace root holds
\* is found there and returned, in offline mode as in online mode.
C16_LegacyOnlyIsFound ==
    (Done("loadWorkflow")
        /\ FileAt(LegacyPath(op.workflowId)).kind = "doc"
        /\ (isOffline =>
               ~fileExists(getOfflineWorkflowFilePath(op.workflowId)))) =>
        /\ LegacyRoot \in {op.checked[i].dir : i \in 1..Len(op.checked)}
        /\ Response = LoadWorkflowMessage(
               migrateWorkflow(FileAt(LegacyPath(op.workflowId))))

\* The call ended in the not-found branch.
NotFound == Done("loadWorkflow") /\ op.foundIn = ""

\* A name no checked directory holds gets one ERROR message and no
\* LOAD_WORKFLOW message, and no file is read.
NotFoundIsAnErrorResponse ==
    NotFound =>
        /\ Len(responses) = 1
        /\ Response.type = "ERROR"
        /\ Response.code = "LOAD_FAILED"
        /\ reads = << >>

\* C17 (as claimed): for a name no checked root holds, loadWorkflow posts
\* an error response and no LOAD_WORKFLOW response, reads no file, and the
\* response says which roots were checked.
C17_NotFoundNamesCheckedRoots ==
    NotFound =>
        /\ Len(responses) = 1
        /\ Response.type = "ERROR"
        /\ reads = << >>
        /\ Response.roots = {op.checked[i].dir : i \in 1..Len(op.checked)}

\* A call in progress stands before one of its steps, whose guard holds.
CallCanGoOn ==
    \/ op.fn = "loadWorkflowList" /\ op.pc = "scan"
                                  /\ Len(op.scans) < Len(ScanOrder)
    \/ op.fn = "loadWorkflow"
          /\ op.pc \in {"checkCurrent", "checkOffline", "checkWorkspace",
                        "read"}

\* C18: every call of loadWorkflow and of loadWorkflowList ends with
\* exactly one message posted, its success message or an ERROR message:
\* nothing is posted before the call ends, a call in progress can always
\* go on, and a call that has ended has posted one message.
C18_ExactlyOneResponse ==
    /\ op.pc # "done" => responses = << >>
    /\ op.pc \notin {"idle", "done"} => CallCanGoOn
    /\ op.pc = "done" =>
          /\ Len(responses) = 1
          /\ Response.type \in
                {IF op.fn = "loadWorkflow" THEN "LOAD_WORKFLOW"
                 ELSE "WORKFLOW_LIST_LOADED", "ERROR"}

\* A file was found, disappeared before the read, and the call has ended
\* with its one ERROR message.
C18_Witness ==
    /\ Done("loadWorkflow")
    /\ op.removed
    /\ responses = <<ErrorThrown("readFile failed")>>

(***************************************************************************)
(* The order of the four branches of parseClaudeCodeOutput.                *)
(***************************************************************************)

\* The positions (from 0) at which p occurs in s.
Occurrences(s, p) == {i \in 0..Len(s) : MatchAt(s, p, i)}

First(positions) == CHOOSE i \in positions : \A j \in positions : i <= j

Last(positions) == CHOOSE i \in positions : \A j \in positions : i >= j

\* The text has a json-tagged fence and a fence that starts at least gap
\* characters after the end of that tag.
LaterFence(trimmed, gap) ==
    \E i \in Occurrences(trimmed, FenceJson),
       j \in Occurrences(trimmed, Fence) : j >= i + Len(FenceJson) + gap

\* The first of the four strategies that applies to a trimmed output.
ReferenceStrategy(trimmed, gap) ==
    CASE startsWith(trimmed, FenceJson) /\ endsWith(trimmed, Fence) -> 1
      [] ~(startsWith(trimmed, FenceJson) /\ endsWith(trimmed, Fence))
         /\ startsWith(trimmed, <<"{">>) -> 2
      [] ~(startsWith(trimmed, FenceJson) /\ endsWith(trimmed, Fence))
         /\ ~startsWith(trimmed, <<"{">>)
         /\ LaterFence(trimmed, gap) -> 3
      [] OTHER -> 4

\* The text that strategy parses: what lies between the two fences (1),
\* what lies between the first json-tagged fence and the last fence (3),
\* the whole trimmed output (2 and 4).
ReferenceText(trimmed, gap) ==
    CASE ReferenceStrategy(trimmed, gap) = 1 ->
            SubSeq(trimmed, Len(FenceJson) + 1, Len(trimmed) - Len(Fence))
      [] ReferenceStrategy(trimmed, gap) = 3 ->
            SubSeq(trimmed,
                   First(Occurrences(trimmed, FenceJson)) + Len(FenceJson) + 1,
                   Last(Occurrences(trimmed, Fence)))
      [] OTHER -> trimmed

\* The result of the reference: the value parsed from that text, "no
\* result" when it does not parse; no other text is tried.
Reference(output, gap) ==
    LET r == JsonParse(ReferenceText(trim(output), gap)) IN
    IF r.ok THEN r.v ELSE NoResult

\* C21 (as claimed): on every input parseClaudeCodeOutput returns what the
\* reference returns that takes the first applicable of (1) starts with the
\* json fence tag and ends with a fence, (2) starts with an opening brace,
\* (3) contains a json-tagged fence followed by a later fence, (4) the
\* whole trimmed text, and yields "no result" when that text does not
\* parse.
C21_FirstApplicableStrategyDecides ==
    parsePc = "done" => parseOut = Reference(parseIn, 0)

\* C21 (amended): the same, where strategy (3) applies only when the last
\* fence starts at least one character after the end of the json tag, so
\* that a tag immediately followed by the last fence leaves the text to
\* strategy (4).
C21_StrategyThreeNeedsAnInterior ==
    parsePc = "done" => parseOut = Reference(parseIn, 1)

\* Strategy (3) was taken, its text did not parse, the whole text would
\* have parsed, and the function returned "no result".
C21_Witness ==
    /\ parsePc = "done"
    /\ ReferenceStrategy(trim(parseIn), 1) = 3
    /\ ~JsonParse(ReferenceText(trim(parseIn), 1)).ok
    /\ JsonParse(trim(parseIn)).ok
    /\ parseOut = NoResult

\* What lies between the end of the first json tag and the start of the
\* last fence of a text.
Interior(trimmed) ==
    SubSeq(trimmed,
           First(Occurrences(trimmed, FenceJson)) + Len(FenceJson) + 1,
           Last(Occurrences(trimmed, Fence)))

\* C22: when the third branch of parseClaudeCodeOutput is taken, the text
\* it parses is what lies between the first json-tagged fence and the last
\* fence of the whole trimmed output (surrounding white space removed), and
\* the result is the value of that text, "no result" when it does not
\* parse: a payload is never cut at a fence inside it.
C22_InteriorRunsToTheLastFence ==
    (parsePc = "done" /\ Strategy(trim(parseIn)) = 3) =>
        /\ JsonContent(trim(parseIn)) = trim(Interior(trim(parseIn)))
        /\ parseOut = IF JsonParse(Interior(trim(parseIn))).ok
                      THEN JsonParse(Interior(trim(parseIn))).v
                      ELSE NoResult

\* Prose followed by a json-fenced payload that has a fence inside it: the
\* third branch was taken and the payload came back whole.
C22_Witness ==
    /\ parsePc = "done"
    /\ parseForm = "prose"
    /\ Strategy(trim(parseIn)) = 3
    /\ Occurrences(Interior(trim(parseIn)), Fence) # {}
    /\ parseOut = parseVal

\* C23: the list one call of loadWorkflowList sends holds no id twice,
\* whatever the directories hold and whichever enumerations fail; the set
\* of processed ids is shared by all the scans of the call, so the list
\* under construction holds no id twice either and every id in it is in
\* the set.
C23_NoIdTwice ==
    /\ op.fn = "loadWorkflowList" =>
          /\ \A i, j \in 1..Len(op.workflows) :
                 op.workflows[i].id = op.workflows[j].id => i = j
          /\ \A i \in 1..Len(op.workflows) :
                 op.workflows[i].id \in op.processedFiles
    /\ (Done("loadWorkflowList") /\ Response.type = "WORKFLOW_LIST_LOADED") =>
          \A i, j \in 1..Len(Response.workflows) :
             Response.workflows[i].id = Response.workflows[j].id => i = j

\* A listing whose first enumeration failed and whose two later ones both
\* enumerated a directory holding two documents: the list sent holds each
\* of them once.
C23_Witness ==
    /\ Done("loadWorkflowList")
    /\ Response.type = "WORKFLOW_LIST_LOADED"
    /\ ScansThatThrew = {1}
    /\ Cardinality(ScansThatRead) = 2
    /\ Len(Response.workflows) = 2
    /\ Cardinality(ListedIds) = 2

(***************************************************************************)
(* The texts passed to onProgress during one streaming execution.          *)
(***************************************************************************)

\* Text p is the beginning of text s.
IsPrefix(p, s) == Len(p) <= Len(s) /\ SubSeq(s, 1, Len(p)) = p

\* C24 (as claimed): during one streaming execution the display text
\* passed to onProgress is an accumulator: the display text of every
\* invocation after the first begins with the display text of the
\* invocation before it and is that text extended by the new chunk, and
\* the explanatory text accumulates the chunks of type text in the same
\* way.
C24_DisplayTextAccumulates ==
    \A c \in Calls :
        LET log == calls[c].progress IN
        \A i \in 2..Len(log) :
            LET prev == log[i - 1].arg
                cur == log[i].arg IN
            /\ IsPrefix(prev.displayText, cur.displayText)
            /\ cur.displayText = prev.displayText \o cur.chunk
            /\ cur.explanatoryText =
                  IF cur.contentType = "text"
                  THEN prev.explanatoryText \o cur.chunk
                  ELSE prev.explanatoryText

\* C25: in loadWorkflow, migrateWorkflow is called exactly once on every
\* path that ends with LOAD_WORKFLOW, on the document that was read and
\* before the message is posted, and the document the message carries is
\* what the call returned; it is not called while the file is looked for,
\* and not at all on a path that ends with ERROR (file not found, file
\* unreadable, file not JSON).
C25_HookOnceOnSuccessOnly ==
    op.fn = "loadWorkflow" =>
        /\ op.pc # "done" => op.migrated = << >>
        /\ (op.pc = "done" /\ Response.type = "LOAD_WORKFLOW") =>
              /\ Len(op.migrated) = 1
              /\ op.migrated[1] = FileAt(op.filePath)
              /\ Response.workflow = migrateWorkflow(op.migrated[1])
        /\ (op.pc = "done" /\ Response.type = "ERROR") =>
              op.migrated = << >>

\* A load that ended with LOAD_WORKFLOW: the hook was called once and the
\* document sent is its result, which differs from the document read.
C25_Witness ==
    /\ Done("loadWorkflow")
    /\ Response.type = "LOAD_WORKFLOW"
    /\ Len(op.migrated) = 1
    /\ Response.workflow = migrateWorkflow(op.migrated[1])
    /\ Response.workflow # op.migrated[1]

(***************************************************************************)
(* A listing followed by the load of one of the ids it sent, the           *)
(* directories left as they are in between.                                *)
(***************************************************************************)

\* The caller takes an id from the list that was sent and calls
\* loadWorkflow with it; listed remembers the entry and the path its
\* metadata was read from.
loadListedWorkflow ==
    /\ Done("loadWorkflowList")
    /\ Response.type = "WORKFLOW_LIST_LOADED"
    /\ \E i \in 1..Len(op.workflows) :
          LET entry == op.workflows[i] IN
          op' = [NewOp("loadWorkflow", "checkCurrent", entry.id) EXCEPT
                    !.listed = <<[entry |-> entry,
                                  path |-> ScanFilePath(entry.source,
                                                        entry.id)]>>]
    /\ UNCHANGED <<isOffline, fs, responses, reads, orchVars, parseVars>>

NextListLoad ==
    \/ NextStore
    \/ loadListedWorkflow

SpecListLoad == InitStore /\ [][NextListLoad]_vars

\* C26: every id loadWorkflowList sends can be loaded: while the
\* directories stay as they were, loadWorkflow of a listed id finds the
\* file at its first check, reads the very file the listing read the
\* entry's metadata from, and ends with LOAD_WORKFLOW carrying the migrated
\* content of that file.
C26_ListedIdLoadsTheListedFile ==
    (op.fn = "loadWorkflow" /\ op.listed # << >> /\ ~op.removed) =>
        LET listed == op.listed[1] IN
        /\ op.workflowId = listed.entry.id
        /\ listed.entry = ListEntry(listed.entry.id, FileAt(listed.path),
                                    listed.entry.source)
        /\ op.pc \in {"checkCurrent", "read", "done"}
        /\ op.pc \in {"read", "done"} => op.filePath = listed.path
        /\ op.pc = "done" =>
              /\ Response.type = "LOAD_WORKFLOW"
              /\ reads = <<listed.path>>
              /\ Response.workflow = migrateWorkflow(FileAt(listed.path))
              /\ Response.workflow.description = listed.entry.description

\* Offline mode, the first enumeration of the listing failed, the id is
\* also the id of another document in the workspace directory: the load of
\* the listed id has ended with the document the listing read.
C26_Witness ==
    /\ Done("loadWorkflow")
    /\ op.listed # << >>
    /\ isOffline
    /\ op.listed[1].entry.source # "current"
    /\ FileAt([dir |-> WorkspaceDir, id |-> op.workflowId]).kind = "doc"
    /\ Response.type = "LOAD_WORKFLOW"
    /\ reads = <<op.listed[1].path>>

====
